---- MODULE Spec2Model ----
(***************************************************************************)
(* A model of CommandHandler (src/command_handler.py): the plan executor   *)
(* execute_commands, the speech subsystem (speak_text, stop_speaking and   *)
(* the background run_speech task), read_from_cursor and the plan          *)
(* generator generate_commands.                                            *)
(*                                                                         *)
(* Flows of control: one main flow, which runs execute_commands and the    *)
(* handlers it calls, and one background flow per thread started at line   *)
(* 233.  The main flow's position in the code is pc, with the             *)
(* continuations of nested calls on stack.                                 *)
(***************************************************************************)
EXTENDS Integers, Sequences, FiniteSets, TLC

\* Longest plan handed to execute_commands.
MaxPlanLen == 3

\* Longest plan with read_from_cursor steps handed to execute_commands.
MaxReadPlanLen == 2

\* Largest screen width and height, in pixels.
MaxScreen == 4

\* Largest denominator of the fractions move_mouse is called with.
MaxDen == 4

VARIABLES
  plan,          \* the argument of execute_commands
  pc,            \* position of the main flow
  i,             \* index of the step the for loop of line 444 is at
  stack,         \* continuations of the nested calls of the main flow
  arg,           \* the text argument of the speak_text call in progress
  dispatched,    \* the steps whose loop body has begun, in order
  invoked,       \* the steps whose handler was called at line 450, in order
  active,        \* the steps whose handler was called and has not returned
  raisedAt,      \* the steps whose loop body ended in the except of line 454
  engine,        \* self.engine: 0 is None, n > 0 the n-th engine created
  is_speaking,   \* self.is_speaking
  speech_thread, \* self.speech_thread: 0 is None, t the thread of step t
  speech_lock,   \* self.speech_lock: "free" or the flow that holds it
  thr,           \* thr[t]: position of the thread started by step t
  lastWrite,     \* the last write to the shared speech state
  clipboard,     \* the system clipboard
  original_clipboard, \* read_from_cursor's local of that name
  current_text,  \* read_from_cursor's local of that name
  selected_text, \* read_from_cursor's local of that name
  k,             \* iterations the for loop of line 264 has completed
  entry_clipboard, \* the clipboard when the handler in progress was called
  captures,      \* what read_from_cursor has read off the clipboard, in order
  gpc,           \* position of the main flow in generate_commands
  user_text,     \* the argument of generate_commands
  conversation_history, \* self.conversation_history
  current_window, \* generate_commands' local of that name
  context,       \* the turns embedded in the prompt
  attempts,      \* generate_commands' local of that name
  fetches,       \* calls of executions.get made so far
  status,        \* result.status of the last fetch
  output,        \* result.output of the last fetch
  raw_text,      \* generate_commands' local of that name
  clean_text,    \* generate_commands' local of that name
  commands,      \* what generate_commands returns
  outcome,       \* the path on which generate_commands ended
  mpc,           \* position of the main flow in move_mouse
  move_x,        \* move_mouse's argument of that name, a fraction
  move_y,        \* move_mouse's argument of that name, a fraction
  screen_width,  \* move_mouse's local of that name
  screen_height, \* move_mouse's local of that name
  x,             \* move_mouse's local of that name
  y,             \* move_mouse's local of that name
  target         \* the point pyautogui.moveTo was called with

vars == <<plan, pc, i, stack, arg, dispatched, invoked, active, raisedAt,
          engine, is_speaking, speech_thread, speech_lock, thr, lastWrite,
          clipboard, original_clipboard, current_text, selected_text, k,
          entry_clipboard, captures, gpc, user_text, conversation_history,
          current_window, context, attempts, fetches, status, output,
          raw_text, clean_text, commands, outcome, mpc, move_x, move_y,
          screen_width, screen_height, x, y, target>>

execVars == <<dispatched, invoked, active, raisedAt>>
speechVars == <<engine, is_speaking, speech_thread, speech_lock, thr, lastWrite>>
readVars == <<clipboard, original_clipboard, current_text, selected_text, k,
              entry_clipboard, captures>>
mouseVars == <<mpc, move_x, move_y, screen_width, screen_height, x, y, target>>
genVars == <<gpc, user_text, conversation_history, current_window, context,
             attempts, fetches, status, output, raw_text, clean_text,
             commands, outcome>>

----------------------------------------------------------------------------
\* The action registry, self.actions.
Actions ==
  {"press_keys", "run_command", "type_text", "open_url", "abrogate",
   "left_click", "right_click", "scroll", "move_mouse", "llm_response",
   "sleep", "speak_text", "read_from_cursor", "stop_speaking",
   "hold_mouse", "release_mouse"}

\* A text is a sequence of characters; "\n" is the line break and " " the
\* space.  NoText is the empty string.
NoText == <<>>

\* str.strip(): leading and trailing whitespace removed.
IsSpace(c) == c \in {" ", "\n"}

RECURSIVE LStrip(_)
LStrip(s) == IF s # <<>> /\ IsSpace(Head(s)) THEN LStrip(Tail(s)) ELSE s

RECURSIVE RStrip(_)
RStrip(s) ==
  IF s # <<>> /\ IsSpace(s[Len(s)]) THEN RStrip(SubSeq(s, 1, Len(s) - 1)) ELSE s

Strip(s) == RStrip(LStrip(s))

\* str.replace('\n', ' ') (line 274).
CleanNewlines(s) == [n \in DOMAIN s |-> IF s[n] = "\n" THEN " " ELSE s[n]]

\* What the clipboard holds when read_from_cursor is called.
InitialClipboards == { NoText, <<"o">> }

\* What ctrl+c can put on the clipboard: the text selected on the screen.
Selections == { <<"\n">>, <<"a">>, <<"a", "\n", "b">> }

\* range(10) of line 264.
MaxExtend == 10

\* A plan step.  shape is "dict" for a mapping and "scalar" for any other
\* JSON value; parameters is "absent" (the key is missing), "mapping", or
\* "notmapping" (null, a list, a number, a string); text is the value of
\* parameters["text"], the empty string when there is none.
Step(shape, command, parameters, text) ==
  [shape |-> shape, command |-> command, parameters |-> parameters, text |-> text]

\* The steps plans are built from.
StepKinds ==
  { Step("scalar", "", "absent", NoText),
    Step("dict", "bogus", "mapping", NoText),
    Step("dict", "left_click", "absent", NoText),
    Step("dict", "left_click", "notmapping", NoText),
    Step("dict", "speak_text", "mapping", <<"h", "i">>),
    Step("dict", "speak_text", "absent", NoText),
    Step("dict", "stop_speaking", "absent", NoText) }

ReadStep == Step("dict", "read_from_cursor", "absent", NoText)

Plans == UNION { [1..n -> StepKinds] : n \in 0..MaxPlanLen }

ReadPlans ==
  { p \in UNION { [1..n -> StepKinds \cup {ReadStep}] : n \in 1..MaxReadPlanLen } :
      \E n \in DOMAIN p : p[n] = ReadStep }

\* cmd.get(...) raises on a step that is no mapping (line 446).
GetRaises(s) == s.shape # "dict"

\* command_name in self.actions (line 449).
IsRegistered(s) == s.command \in Actions

\* **parameters raises on a value that is no mapping (line 450);
\* cmd.get("parameters", {}) gives {} when the key is absent (line 447).
ExpandRaises(s) == s.parameters = "notmapping"

\* The first position of the handler the registry maps a command to.
HandlerEntry(command) ==
  CASE command = "speak_text" -> "st_entry"
    [] command = "stop_speaking" -> "ss_lock"
    [] command = "read_from_cursor" -> "rc_save"
    [] OTHER -> "h_body"

----------------------------------------------------------------------------
\* generate_commands: texts, JSON and result payloads.
\*
\* A text is a sequence of tokens.  The tokens of JSON are "[", "]", ",",
\* "{}" (a whole well-formed object, a plan step) and "7" (a number); " "
\* and "\n" are whitespace; "~~~json" and "~~~" are the code-fence markers;
\* every other token is prose.

\* max_attempts of line 348.
MaxAttempts == 30

\* The turns of the history read back into the prompt ([-3:] of line 329).
ContextTurns == 3

\* Longest conversation history generate_commands is called with.
MaxHistory == 4

\* A JSON value: t is "arr", "obj" or "num"; items are the elements of an
\* array.
Arr(items) == [t |-> "arr", items |-> items]
Obj == [t |-> "obj", items |-> <<>>]
Num == [t |-> "num", items |-> <<>>]

\* The empty plan, [].
EmptyPlan == Arr(<<>>)

ParseFail == [ok |-> FALSE, val |-> Num, next |-> 0]

RECURSIVE SkipSpace(_, _)
SkipSpace(s, p) == IF p <= Len(s) /\ IsSpace(s[p]) THEN SkipSpace(s, p + 1) ELSE p

\* json.loads, as a recursive-descent parser: ParseValue reads one value at
\* position p, ParseItems the rest of an array whose elements so far are acc.
RECURSIVE ParseValue(_, _)
RECURSIVE ParseItems(_, _, _)
ParseValue(s, p) ==
  LET q == SkipSpace(s, p) IN
  IF q > Len(s) THEN ParseFail
  ELSE CASE s[q] = "{}" -> [ok |-> TRUE, val |-> Obj, next |-> q + 1]
         [] s[q] = "7" -> [ok |-> TRUE, val |-> Num, next |-> q + 1]
         [] s[q] = "[" ->
              LET r == SkipSpace(s, q + 1) IN
              IF r <= Len(s) /\ s[r] = "]"
              THEN [ok |-> TRUE, val |-> Arr(<<>>), next |-> r + 1]
              ELSE ParseItems(s, q + 1, <<>>)
         [] OTHER -> ParseFail

ParseItems(s, p, acc) ==
  LET v == ParseValue(s, p) IN
  IF ~v.ok THEN ParseFail
  ELSE LET r == SkipSpace(s, v.next) IN
       IF r > Len(s) THEN ParseFail
       ELSE CASE s[r] = "]" ->
                   [ok |-> TRUE, val |-> Arr(Append(acc, v.val)), next |-> r + 1]
              [] s[r] = "," -> ParseItems(s, r + 1, Append(acc, v.val))
              [] OTHER -> ParseFail

\* json.loads(s): one value and nothing but whitespace around it;
\* JSONDecodeError (ok false) otherwise.
JsonLoads(s) ==
  LET v == ParseValue(s, 1) IN
  IF v.ok /\ SkipSpace(s, v.next) > Len(s) THEN v ELSE ParseFail

\* RemoveFences keeping only what stands between the first two fence
\* markers: nothing, for a text without fences.
BetweenFences(s) ==
  LET marks == { n \in DOMAIN s : s[n] \in {"~~~json", "~~~"} } IN
  IF Cardinality(marks) < 2 THEN <<>>
  ELSE LET first == CHOOSE n \in marks : \A m \in marks : n <= m
           second == CHOOSE n \in marks \ {first} :
                       \A m \in marks \ {first} : n <= m
       IN SubSeq(s, first + 1, second - 1)

\* Line 395: the two replace calls remove the fence markers, with and
\* without json.
RemoveFences(s) == SelectSeq(s, LAMBDA c : c \notin {"~~~json", "~~~"})

CleanText(s) == Strip(RemoveFences(s))

\* str.find and str.rfind (lines 409-410), 1-based; 0 when c is not in s.
Find(s, c) ==
  IF \E n \in DOMAIN s : s[n] = c
  THEN CHOOSE n \in DOMAIN s : s[n] = c /\ \A m \in 1..(n - 1) : s[m] # c
  ELSE 0

RFind(s, c) ==
  IF \E n \in DOMAIN s : s[n] = c
  THEN CHOOSE n \in DOMAIN s : s[n] = c /\ \A m \in (n + 1)..Len(s) : s[m] # c
  ELSE 0

\* BracketSlice without the + 1 of line 410: the last "]" is left out.
BracketSliceExclusive(s) ==
  [found |-> Find(s, "[") # 0 /\ RFind(s, "]") # 0,
   text |-> IF Find(s, "[") # 0 /\ RFind(s, "]") # 0
            THEN SubSeq(s, Find(s, "["), RFind(s, "]") - 1)
            ELSE NoText]

\* Lines 409-413: the text from the first "[" to the last "]"; found is
\* false when one of them is missing.
BracketSlice(s) ==
  [found |-> Find(s, "[") # 0 /\ RFind(s, "]") # 0,
   text |-> IF Find(s, "[") # 0 /\ RFind(s, "]") # 0
            THEN SubSeq(s, Find(s, "["), RFind(s, "]"))
            ELSE NoText]

\* repr of a string inside the str() of a payload: quoted, line breaks
\* escaped.
Repr(s) ==
  <<"'">> \o [n \in DOMAIN s |-> IF s[n] = "\n" THEN "\\n" ELSE s[n]] \o <<"'">>

\* An entry of a list payload.  form is "attr" for an object with
\* attributes and "dict" for a mapping.
Item(form, role, hasContent, content) ==
  [form |-> form, role |-> role, hasContent |-> hasContent, content |-> content]

\* An entry of the choices of a dictionary payload.
Choice(hasMessage, messageHasContent, messageContent, hasContent, content) ==
  [hasMessage |-> hasMessage, messageHasContent |-> messageHasContent,
   messageContent |-> messageContent, hasContent |-> hasContent,
   content |-> content]

\* result.output.  kind is "list", "dict", "str" (a plain string), "none"
\* (None), or "missing" (result has no attribute output).
Payload(kind, items, hasChoices, choices, hasContent, content) ==
  [kind |-> kind, items |-> items, hasChoices |-> hasChoices,
   choices |-> choices, hasContent |-> hasContent, content |-> content]

ListPayload(items) == Payload("list", items, FALSE, <<>>, FALSE, NoText)
DictPayload(hasChoices, choices, hasContent, content) ==
  Payload("dict", <<>>, hasChoices, choices, hasContent, content)
StrPayload(text) == Payload("str", <<>>, FALSE, <<>>, TRUE, text)
NonePayload == Payload("none", <<>>, FALSE, <<>>, FALSE, NoText)
MissingPayload == Payload("missing", <<>>, FALSE, <<>>, FALSE, NoText)

\* Lines 365-371: the content of the first assistant entry, "" when there
\* is none.
RECURSIVE AssistantContent(_)
AssistantContent(items) ==
  IF items = <<>> THEN NoText
  ELSE LET it == Head(items) IN
       IF it.form = "attr" /\ it.role = "assistant" /\ it.hasContent
       THEN it.content
       ELSE IF it.form = "dict" /\ it.role = "assistant"
            THEN (IF it.hasContent THEN it.content ELSE NoText)
            ELSE AssistantContent(Tail(items))

\* Lines 374-381: choices[0] when there are choices, else the top-level
\* content.
DictContent(o) ==
  IF o.hasChoices /\ Len(o.choices) > 0
  THEN LET c == o.choices[1] IN
       IF c.hasMessage /\ c.messageHasContent THEN c.messageContent
       ELSE IF c.hasContent THEN c.content
       ELSE NoText
  ELSE IF o.hasContent THEN o.content
  ELSE NoText

\* Lines 359-381: raw_text before the fallback.
ExtractText(o) ==
  CASE o.kind = "list" -> AssistantContent(o.items)
    [] o.kind = "dict" -> DictContent(o)
    [] OTHER -> NoText

\* The texts of parts joined by commas.
RECURSIVE JoinComma(_)
JoinComma(parts) ==
  IF parts = <<>> THEN <<>>
  ELSE IF Len(parts) = 1 THEN parts[1]
  ELSE parts[1] \o <<",">> \o JoinComma(Tail(parts))

ItemStr(it) ==
  IF it.form = "dict"
  THEN <<"{", "'role':", it.role>>
       \o (IF it.hasContent THEN <<",", "'content':">> \o Repr(it.content) ELSE <<>>)
       \o <<"}">>
  ELSE <<"Entry(", it.role>>
       \o (IF it.hasContent THEN <<",">> \o Repr(it.content) ELSE <<>>)
       \o <<")">>

ChoiceStr(c) ==
  <<"{">>
  \o (IF c.hasMessage
      THEN <<"'message':", "{">>
           \o (IF c.messageHasContent
               THEN <<"'content':">> \o Repr(c.messageContent) ELSE <<>>)
           \o <<"}">>
      ELSE <<>>)
  \o (IF c.hasMessage /\ c.hasContent THEN <<",">> ELSE <<>>)
  \o (IF c.hasContent THEN <<"'content':">> \o Repr(c.content) ELSE <<>>)
  \o <<"}">>

\* str(result.output) of line 385.
OutputStr(o) ==
  CASE o.kind = "list" ->
         <<"[">> \o JoinComma([n \in DOMAIN o.items |-> ItemStr(o.items[n])]) \o <<"]">>
    [] o.kind = "dict" ->
         <<"{">>
         \o (IF o.hasChoices
             THEN <<"'choices':", "[">>
                  \o JoinComma([n \in DOMAIN o.choices |-> ChoiceStr(o.choices[n])])
                  \o <<"]">>
             ELSE <<>>)
         \o (IF o.hasChoices /\ o.hasContent THEN <<",">> ELSE <<>>)
         \o (IF o.hasContent THEN <<"'content':">> \o Repr(o.content) ELSE <<>>)
         \o <<"}">>
    [] o.kind = "str" -> o.content
    [] OTHER -> <<"None">>

\* re.search(r'\[\s*\{.*\}\s*\]', s, re.DOTALL) of line 387: the leftmost
\* "[" that whitespace and a "{" follow, up to the last "]" that a "}" and
\* whitespace precede.
OpensBrace(c) == c \in {"{", "{}"}
ClosesBrace(c) == c \in {"}", "{}"}

RECURSIVE SkipSpaceBack(_, _)
SkipSpaceBack(s, p) ==
  IF p >= 1 /\ IsSpace(s[p]) THEN SkipSpaceBack(s, p - 1) ELSE p

ArrayMatches(s) ==
  { m \in (DOMAIN s) \X (DOMAIN s) :
      LET q == SkipSpace(s, m[1] + 1)
          r == SkipSpaceBack(s, m[2] - 1) IN
      /\ s[m[1]] = "[" /\ s[m[2]] = "]"
      /\ q <= Len(s) /\ OpensBrace(s[q])
      /\ r >= 1 /\ ClosesBrace(s[r])
      /\ (q < r \/ (q = r /\ s[q] = "{}")) }

ArraySearch(s) ==
  LET ms == ArrayMatches(s) IN
  IF ms = {} THEN [found |-> FALSE, text |-> NoText]
  ELSE LET first == CHOOSE m \in ms : \A n \in ms : m[1] <= n[1]
           last == CHOOSE m \in ms :
                     m[1] = first[1] /\ \A n \in ms : n[1] = m[1] => n[2] <= m[2]
       IN [found |-> TRUE, text |-> SubSeq(s, first[1], last[2])]

\* A conversation turn (lines 400-405).
Turn(user, assistant, window, timestamp) ==
  [user |-> user, assistant |-> assistant, window |-> window,
   timestamp |-> timestamp]

\* LastTurns reading from the start of the history ([:3]).
FirstTurns(h) ==
  SubSeq(h, 1, IF Len(h) > ContextTurns THEN ContextTurns ELSE Len(h))

\* conversation_history[-3:] of line 329.
LastTurns(h) ==
  SubSeq(h, IF Len(h) > ContextTurns THEN Len(h) - ContextTurns + 1 ELSE 1, Len(h))

\* Texts a model answers with.
PlanText == <<"[", "{}", ",", "{}", "]">>
FencedPlanText == <<"~~~json", "\n", "[", "{}", "]", "\n", "~~~">>
ProsePlanText == <<"Sure", " ", "[", "{}", "]", " ", "ok">>
ObjectText == <<"{}">>
ProseText == <<"Sorry">>
TwoArraysText == <<"[", "7", "]", " ", "and", " ", "[", "{}", "]">>
ShortPlanText == <<"[", "{}", "]">>
BareFencedPlanText == <<"~~~", "\n", "[", "{}", ",", "{}", "]", "\n", "~~~">>
BracketProseText == <<"see", " ", "[", "note", "]", ":", " ", "[", "{}", "]">>
EmptyPlanText == <<"[", "]">>

ModelTexts ==
  {PlanText, FencedPlanText, ProsePlanText, ObjectText, ProseText, TwoArraysText,
   ShortPlanText, BareFencedPlanText, BracketProseText, EmptyPlanText}

\* The payloads a succeeded execution comes with.
Payloads ==
  { ListPayload(<<Item("dict", "user", TRUE, <<"hi">>), Item("dict", "assistant", TRUE, t)>>)
      : t \in ModelTexts }
  \cup { ListPayload(<<Item("attr", "assistant", TRUE, t)>>) : t \in {PlanText, NoText} }
  \cup { ListPayload(<<Item("dict", "user", TRUE, <<"hi">>)>>),
         ListPayload(<<Item("dict", "assistant", FALSE, NoText)>>),
         ListPayload(<<>>) }
  \cup { DictPayload(TRUE, <<Choice(TRUE, TRUE, t, FALSE, NoText)>>, FALSE, NoText)
           : t \in {PlanText, FencedPlanText, ProseText} }
  \cup { DictPayload(TRUE, <<Choice(FALSE, FALSE, NoText, TRUE, PlanText)>>, FALSE, NoText),
         DictPayload(TRUE, <<Choice(TRUE, FALSE, NoText, FALSE, NoText)>>, TRUE, PlanText),
         DictPayload(TRUE, <<>>, TRUE, PlanText),
         DictPayload(FALSE, <<>>, TRUE, PlanText),
         DictPayload(FALSE, <<>>, TRUE, ProsePlanText),
         DictPayload(FALSE, <<>>, FALSE, NoText),
         StrPayload(PlanText),
         StrPayload(ProseText),
         NonePayload,
         MissingPayload }

\* Status values of the remote execution; the first two are terminal.
Statuses == {"succeeded", "failed", "running", "cancelled"}

\* IsTerminal with succeeded as the only status that ends the polling.
IsSucceeded(st) == st = "succeeded"

\* The test of line 352.
IsTerminal(st) == st \in {"succeeded", "failed"}

\* The conversation histories generate_commands is called with: n earlier
\* turns, the m-th made at time m.
Histories ==
  { [m \in 1..n |-> Turn(<<"req", m>>, PlanText, "Desktop", m)] : n \in 0..MaxHistory }

----------------------------------------------------------------------------
InitWith(plans) ==
  /\ plan \in plans
  /\ pc = "exec_entry"
  /\ i = 1
  /\ stack = <<>>
  /\ arg = NoText
  /\ dispatched = <<>>
  /\ invoked = <<>>
  /\ active = {}
  /\ raisedAt = {}
  /\ engine \in {0, 1}
  /\ is_speaking = FALSE
  /\ speech_thread = 0
  /\ speech_lock = "free"
  /\ thr = [t \in 1..Len(plan) |-> "none"]
  /\ lastWrite = [by |-> "none", var |-> "none", locked |-> TRUE]
  /\ clipboard \in InitialClipboards
  /\ original_clipboard = NoText
  /\ current_text = NoText
  /\ selected_text = NoText
  /\ k = 0
  /\ entry_clipboard = clipboard
  /\ captures = <<>>


----------------------------------------------------------------------------
\* The frame of the main flow returns to its caller: to the continuation on
\* top of the stack, or, for a handler called at line 450, to the for loop.
HandlerReturn ==
  IF stack = <<>>
  THEN /\ pc' = "loop"
       /\ i' = i + 1
       /\ active' = active \ {i}
       /\ UNCHANGED <<stack, raisedAt>>
  ELSE /\ pc' = Head(stack)
       /\ stack' = Tail(stack)
       /\ UNCHANGED <<i, active, raisedAt>>

\* HandlerRaise without the except of line 454: the exception leaves
\* execute_commands.
HandlerRaisePropagates ==
  /\ pc' = "raised"
  /\ active' = active \ {i}
  /\ raisedAt' = raisedAt \cup {i}
  /\ stack' = <<>>
  /\ i' = i

\* An exception leaves the frame of the main flow.  Inside the try of
\* read_from_cursor it reaches the except of line 284, which logs it, and
\* read_from_cursor returns; otherwise it reaches the except of line 454,
\* which logs it, and the loop goes on with the next step.
HandlerRaise ==
  IF \E n \in DOMAIN stack : stack[n] = "rc_exit"
  THEN /\ pc' = "rc_exit"
       /\ stack' = <<>>
       /\ UNCHANGED <<i, active, raisedAt>>
  ELSE /\ pc' = "loop"
       /\ i' = i + 1
       /\ active' = active \ {i}
       /\ raisedAt' = raisedAt \cup {i}
       /\ stack' = <<>>

\* execute_commands, lines 441-442.
ExecEntry ==
  /\ pc = "exec_entry"
  /\ pc' = IF plan = <<>> THEN "done" ELSE "loop"
  /\ UNCHANGED <<genVars, mouseVars, plan, readVars, i, stack, arg, execVars, speechVars>>

\* The for loop of line 444 is exhausted.
ExecLoopEnd ==
  /\ pc = "loop"
  /\ i > Len(plan)
  /\ pc' = "done"
  /\ UNCHANGED <<genVars, mouseVars, plan, readVars, i, stack, arg, execVars, speechVars>>

\* Lines 446-447 or the ** of line 450 raise: the except of line 454.
ExecMalformed ==
  /\ pc = "loop"
  /\ i <= Len(plan)
  /\ \/ GetRaises(plan[i])
     \/ ~GetRaises(plan[i]) /\ IsRegistered(plan[i]) /\ ExpandRaises(plan[i])
  /\ dispatched' = Append(dispatched, i)
  /\ raisedAt' = raisedAt \cup {i}
  /\ i' = i + 1
  /\ UNCHANGED <<genVars, mouseVars, plan, readVars, pc, stack, arg, invoked, active, speechVars>>

\* ExecUnknown ending the loop at the unknown command.
ExecUnknownHalts ==
  /\ pc = "loop"
  /\ i <= Len(plan)
  /\ ~GetRaises(plan[i])
  /\ ~IsRegistered(plan[i])
  /\ dispatched' = Append(dispatched, i)
  /\ pc' = "done"
  /\ UNCHANGED <<genVars, mouseVars, plan, readVars, i, stack, arg, invoked, active, raisedAt, speechVars>>

\* Lines 451-453: the command is no key of the registry.
ExecUnknown ==
  /\ pc = "loop"
  /\ i <= Len(plan)
  /\ ~GetRaises(plan[i])
  /\ ~IsRegistered(plan[i])
  /\ dispatched' = Append(dispatched, i)
  /\ i' = i + 1
  /\ UNCHANGED <<genVars, mouseVars, plan, readVars, pc, stack, arg, invoked, active, raisedAt, speechVars>>

\* ExecInvoke not waiting for the handler to return before the next step.
ExecInvokeDetached ==
  /\ pc = "loop"
  /\ i <= Len(plan)
  /\ ~GetRaises(plan[i])
  /\ IsRegistered(plan[i])
  /\ ~ExpandRaises(plan[i])
  /\ dispatched' = Append(dispatched, i)
  /\ invoked' = Append(invoked, i)
  /\ active' = active \cup {i}
  /\ i' = i + 1
  /\ UNCHANGED <<genVars, mouseVars, plan, readVars, pc, arg, stack, raisedAt, speechVars>>

\* Line 450: the handler is called.
ExecInvoke ==
  /\ pc = "loop"
  /\ i <= Len(plan)
  /\ ~GetRaises(plan[i])
  /\ IsRegistered(plan[i])
  /\ ~ExpandRaises(plan[i])
  /\ dispatched' = Append(dispatched, i)
  /\ invoked' = Append(invoked, i)
  /\ active' = active \cup {i}
  /\ arg' = plan[i].text
  /\ pc' = HandlerEntry(plan[i].command)
  /\ entry_clipboard' = clipboard
  /\ UNCHANGED <<genVars, mouseVars, captures, plan, clipboard, original_clipboard, current_text,
                 selected_text, k, i, stack, raisedAt, speechVars>>

\* A handler that touches no state of the CommandHandler (left_click and
\* the like): it returns, or raises what the OS call raises.
GenericReturn ==
  /\ pc = "h_body"
  /\ HandlerReturn
  /\ UNCHANGED <<genVars, mouseVars, plan, readVars, arg, dispatched, invoked, speechVars>>

GenericRaise ==
  /\ pc = "h_body"
  /\ HandlerRaise
  /\ UNCHANGED <<genVars, mouseVars, plan, readVars, arg, dispatched, invoked, speechVars>>

----------------------------------------------------------------------------
\* speak_text, lines 212-213.
SpeakEntry ==
  /\ pc = "st_entry"
  /\ IF arg = NoText \/ engine = 0
     THEN HandlerReturn
     ELSE pc' = "st_lock" /\ UNCHANGED <<i, stack, active, raisedAt>>
  /\ UNCHANGED <<genVars, mouseVars, plan, readVars, arg, dispatched, invoked, speechVars>>

\* Line 216: with self.speech_lock, a threading.Lock, which is not
\* reentrant: the flow waits while anyone holds it, itself included.
SpeakLock ==
  /\ pc = "st_lock"
  /\ speech_lock = "free"
  /\ speech_lock' = "main"
  /\ pc' = "st_test"
  /\ UNCHANGED <<genVars, mouseVars, plan, readVars, i, stack, arg, execVars, engine, is_speaking,
                 speech_thread, thr, lastWrite>>

\* Lines 217-218: stop_speaking is called with the lock held.
SpeakTest ==
  /\ pc = "st_test"
  /\ IF is_speaking
     THEN pc' = "ss_lock" /\ stack' = <<"st_start">> \o stack
     ELSE pc' = "st_start" /\ stack' = stack
  /\ UNCHANGED <<genVars, mouseVars, plan, readVars, i, arg, execVars, speechVars>>

\* Lines 231-233: the thread is created and started.
SpeakStart ==
  /\ pc = "st_start"
  /\ speech_thread' = i
  /\ thr' = [thr EXCEPT ![i] = "started"]
  /\ lastWrite' = [by |-> "main", var |-> "speech_thread",
                   locked |-> speech_lock = "main"]
  /\ pc' = "st_exit"
  /\ UNCHANGED <<genVars, mouseVars, plan, readVars, i, stack, arg, execVars, engine, is_speaking, speech_lock>>

\* The with block of line 216 ends and speak_text returns.
SpeakExit ==
  /\ pc = "st_exit"
  /\ speech_lock' = "free"
  /\ HandlerReturn
  /\ UNCHANGED <<genVars, mouseVars, plan, readVars, arg, dispatched, invoked, engine, is_speaking,
                 speech_thread, thr, lastWrite>>

----------------------------------------------------------------------------
\* engine.stop() halts the utterance in progress: runAndWait returns in the
\* thread that is inside it.
Halted(th) == [t \in DOMAIN th |-> IF th[t] = "saying" THEN "finally" ELSE th[t]]

\* stop_speaking, line 290.
StopLock ==
  /\ pc = "ss_lock"
  /\ speech_lock = "free"
  /\ speech_lock' = "main"
  /\ pc' = "ss_engine"
  /\ UNCHANGED <<genVars, mouseVars, plan, readVars, i, stack, arg, execVars, engine, is_speaking,
                 speech_thread, thr, lastWrite>>

\* Lines 291-298: the engine is stopped.
StopEngine ==
  /\ pc = "ss_engine"
  /\ IF engine = 0
     THEN pc' = "ss_flag" /\ thr' = thr
     ELSE pc' = "ss_reinit" /\ thr' = Halted(thr)
  /\ UNCHANGED <<genVars, mouseVars, plan, readVars, i, stack, arg, execVars, engine, is_speaking,
                 speech_thread, speech_lock, lastWrite>>

\* A call of lines 293-298 raises: the with block releases the lock and the
\* exception leaves stop_speaking.
StopEngineRaise ==
  /\ pc = "ss_engine"
  /\ engine # 0
  /\ speech_lock' = "free"
  /\ HandlerRaise
  /\ UNCHANGED <<genVars, mouseVars, plan, readVars, arg, dispatched, invoked, engine, is_speaking,
                 speech_thread, thr, lastWrite>>

\* Lines 300-306: a new engine replaces the old one, or pyttsx3.init()
\* raises, which is logged, and the old handle stays.
StopReinit ==
  /\ pc = "ss_reinit"
  /\ \/ /\ engine' = engine + 1
        /\ lastWrite' = [by |-> "main", var |-> "engine",
                         locked |-> speech_lock = "main"]
     \/ UNCHANGED <<engine, lastWrite>>
  /\ pc' = "ss_flag"
  /\ UNCHANGED <<genVars, mouseVars, plan, readVars, i, stack, arg, execVars, is_speaking, speech_thread,
                 speech_lock, thr>>

\* Line 308.
StopFlag ==
  /\ pc = "ss_flag"
  /\ is_speaking' = FALSE
  /\ lastWrite' = [by |-> "main", var |-> "is_speaking",
                   locked |-> speech_lock = "main"]
  /\ pc' = "ss_join"
  /\ UNCHANGED <<genVars, mouseVars, plan, readVars, i, stack, arg, execVars, engine, speech_thread,
                 speech_lock, thr>>

\* Lines 310-311: join(timeout=0.2) returns when the thread has ended or
\* when the timeout has passed, whichever is first.
StopJoin ==
  /\ pc = "ss_join"
  /\ pc' = "ss_exit"
  /\ UNCHANGED <<genVars, mouseVars, plan, readVars, i, stack, arg, execVars, speechVars>>

\* The with block of line 290 ends and stop_speaking returns.
StopExit ==
  /\ pc = "ss_exit"
  /\ speech_lock' = "free"
  /\ HandlerReturn
  /\ UNCHANGED <<genVars, mouseVars, plan, readVars, arg, dispatched, invoked, engine, is_speaking,
                 speech_thread, thr, lastWrite>>

----------------------------------------------------------------------------
\* run_speech, line 221, in the thread started by step t.
RunSpeechFlag(t) ==
  /\ thr[t] = "started"
  /\ is_speaking' = TRUE
  /\ lastWrite' = [by |-> "speech", var |-> "is_speaking",
                   locked |-> speech_lock = "speech"]
  /\ thr' = [thr EXCEPT ![t] = "saying_next"]
  /\ UNCHANGED <<genVars, mouseVars, plan, readVars, pc, i, stack, arg, execVars, engine, speech_thread,
                 speech_lock>>

\* Lines 223-224: the thread enters say / runAndWait.
RunSpeechSay(t) ==
  /\ thr[t] = "saying_next"
  /\ thr' = [thr EXCEPT ![t] = "saying"]
  /\ UNCHANGED <<genVars, mouseVars, plan, readVars, pc, i, stack, arg, execVars, engine, is_speaking,
                 speech_thread, speech_lock, lastWrite>>

\* runAndWait returns, or say / runAndWait raise and lines 225-227 log it.
RunSpeechEnd(t) ==
  /\ thr[t] = "saying"
  /\ thr' = [thr EXCEPT ![t] = "finally"]
  /\ UNCHANGED <<genVars, mouseVars, plan, readVars, pc, i, stack, arg, execVars, engine, is_speaking,
                 speech_thread, speech_lock, lastWrite>>

\* Lines 228-229.
RunSpeechFinally(t) ==
  /\ thr[t] = "finally"
  /\ is_speaking' = FALSE
  /\ lastWrite' = [by |-> "speech", var |-> "is_speaking",
                   locked |-> speech_lock = "speech"]
  /\ thr' = [thr EXCEPT ![t] = "dead"]
  /\ UNCHANGED <<genVars, mouseVars, plan, readVars, pc, i, stack, arg, execVars, engine, speech_thread,
                 speech_lock>>

----------------------------------------------------------------------------
\* read_from_cursor, lines 248-249.
ReadSave ==
  /\ pc = "rc_save"
  /\ original_clipboard' = clipboard
  /\ selected_text' = NoText
  /\ pc' = "rc_select"
  /\ UNCHANGED <<genVars, mouseVars, captures, plan, i, stack, arg, execVars, speechVars, entry_clipboard, clipboard,
                 current_text, k>>

\* Lines 252-257: esc, then shift+end selects to the end of the line.
ReadSelect ==
  /\ pc = "rc_select"
  /\ pc' = "rc_copy"
  /\ UNCHANGED <<genVars, mouseVars, plan, readVars, i, stack, arg, execVars, speechVars>>

\* Lines 258-259: ctrl+c puts the selection on the clipboard, and leaves
\* the clipboard alone when nothing is selected.
ReadCopy ==
  /\ pc = "rc_copy"
  /\ clipboard' \in Selections \cup {clipboard}
  /\ pc' = "rc_paste"
  /\ UNCHANGED <<genVars, mouseVars, captures, plan, i, stack, arg, execVars, speechVars, entry_clipboard,
                 original_clipboard, current_text, selected_text, k>>

\* Lines 260-264: the first capture; the for loop starts when it is not
\* empty.
ReadPaste ==
  /\ pc = "rc_paste"
  /\ current_text' = Strip(clipboard)
  /\ captures' = <<Strip(clipboard)>>
  /\ k' = 0
  /\ pc' = IF Strip(clipboard) # NoText THEN "rc_down" ELSE "rc_restore"
  /\ UNCHANGED <<genVars, mouseVars, plan, i, stack, arg, execVars, speechVars, entry_clipboard, clipboard,
                 original_clipboard, selected_text>>

\* Lines 264-266: the next iteration extends the selection by shift+down;
\* after range(10) is exhausted the loop ends.
ReadExtend ==
  /\ pc = "rc_down"
  /\ pc' = IF k < MaxExtend THEN "rc_copy2" ELSE "rc_clean"
  /\ UNCHANGED <<genVars, mouseVars, plan, readVars, i, stack, arg, execVars, speechVars>>

\* Lines 267-268.
ReadCopyAgain ==
  /\ pc = "rc_copy2"
  /\ clipboard' \in Selections \cup {clipboard}
  /\ pc' = "rc_paste2"
  /\ UNCHANGED <<genVars, mouseVars, captures, plan, i, stack, arg, execVars, speechVars, entry_clipboard,
                 original_clipboard, current_text, selected_text, k>>

\* ReadPasteAgain without the comparison of line 270: only an empty capture
\* ends the loop.
ReadPasteAgainUncompared ==
  /\ pc = "rc_paste2"
  /\ captures' = Append(captures, Strip(clipboard))
  /\ IF Strip(clipboard) = NoText
     THEN pc' = "rc_clean" /\ UNCHANGED <<current_text, k>>
     ELSE pc' = "rc_down" /\ current_text' = Strip(clipboard) /\ k' = k + 1
  /\ UNCHANGED <<genVars, mouseVars, plan, i, stack, arg, execVars, speechVars, entry_clipboard, clipboard,
                 original_clipboard, selected_text>>

\* Lines 269-272: break on an empty or unchanged capture.
ReadPasteAgain ==
  /\ pc = "rc_paste2"
  /\ captures' = Append(captures, Strip(clipboard))
  /\ IF Strip(clipboard) = NoText \/ Strip(clipboard) = current_text
     THEN pc' = "rc_clean" /\ UNCHANGED <<current_text, k>>
     ELSE pc' = "rc_down" /\ current_text' = Strip(clipboard) /\ k' = k + 1
  /\ UNCHANGED <<genVars, mouseVars, plan, i, stack, arg, execVars, speechVars, entry_clipboard, clipboard,
                 original_clipboard, selected_text>>

\* Line 274.
ReadClean ==
  /\ pc = "rc_clean"
  /\ selected_text' = CleanNewlines(current_text)
  /\ pc' = "rc_restore"
  /\ UNCHANGED <<genVars, mouseVars, captures, plan, i, stack, arg, execVars, speechVars, entry_clipboard, clipboard,
                 original_clipboard, current_text, k>>

\* Line 277.
ReadRestore ==
  /\ pc = "rc_restore"
  /\ clipboard' = original_clipboard
  /\ pc' = "rc_speak"
  /\ UNCHANGED <<genVars, mouseVars, captures, plan, i, stack, arg, execVars, speechVars, entry_clipboard,
                 original_clipboard, current_text, selected_text, k>>

\* Lines 279-282: speak_text is called with the captured text, or "No text
\* detected" is logged.
ReadSpeak ==
  /\ pc = "rc_speak"
  /\ IF selected_text # NoText
     THEN pc' = "st_entry" /\ arg' = selected_text
          /\ stack' = <<"rc_exit">> \o stack
     ELSE pc' = "rc_exit" /\ UNCHANGED <<arg, stack>>
  /\ UNCHANGED <<genVars, mouseVars, plan, readVars, i, execVars, speechVars>>

\* The positions of read_from_cursor at which the clipboard or the keyboard
\* is used: pyperclip and pyautogui calls, each of which can raise.
ReadCallSites ==
  {"rc_save", "rc_select", "rc_copy", "rc_paste", "rc_copy2", "rc_paste2",
   "rc_restore"}

\* A pyperclip or pyautogui call raises: the except of line 284 logs it and
\* read_from_cursor returns.  shift+down of line 265 is a call of the
\* iteration that position rc_down starts.
ReadRaise ==
  /\ \/ pc \in ReadCallSites
     \/ pc = "rc_down" /\ k < MaxExtend
  /\ pc' = "rc_exit"
  /\ UNCHANGED <<genVars, mouseVars, plan, readVars, i, stack, arg, execVars, speechVars>>

\* read_from_cursor returns; its locals are gone.
ReadExit ==
  /\ pc = "rc_exit"
  /\ HandlerReturn
  /\ original_clipboard' = NoText
  /\ current_text' = NoText
  /\ selected_text' = NoText
  /\ k' = 0
  /\ captures' = <<>>
  /\ UNCHANGED <<genVars, mouseVars, plan, clipboard, entry_clipboard, arg, dispatched, invoked,
                 speechVars>>

----------------------------------------------------------------------------
\* generate_commands.

\* What get_active_window returns: a title, or None when there is none.
WindowTitles == {"Desktop", "None"}

UserTexts == { <<"open", " ", "notepad">> }

\* The state of the executor, which generate_commands leaves alone.
handlerVars == <<plan, pc, i, stack, arg, execVars, speechVars, readVars>>

\* generate_commands has not been called.
GenIdle ==
  /\ gpc = "g_idle"
  /\ user_text = NoText
  /\ conversation_history = <<>>
  /\ current_window = "None"
  /\ context = <<>>
  /\ attempts = 0
  /\ fetches = 0
  /\ status = "none"
  /\ output = NonePayload
  /\ raw_text = NoText
  /\ clean_text = NoText
  /\ commands = EmptyPlan
  /\ outcome = "none"

\* generate_commands(text) is called on a handler with some history.
GenCalled ==
  /\ gpc = "g_window"
  /\ user_text \in UserTexts
  /\ conversation_history \in Histories
  /\ current_window = "None"
  /\ context = <<>>
  /\ attempts = 0
  /\ fetches = 0
  /\ status = "none"
  /\ output = NonePayload
  /\ raw_text = NoText
  /\ clean_text = NoText
  /\ commands = EmptyPlan
  /\ outcome = "none"

\* time.time() of lines 404 and 419: later than every stored turn.
Now == Len(conversation_history) + 1

\* return [] of lines 393, 427 and 432, each after a log entry; why names
\* the failure.
GenReturnEmpty(why) ==
  /\ gpc' = "g_done"
  /\ commands' = EmptyPlan
  /\ outcome' = why

\* GenCaught without the except of line 434: the exception leaves
\* generate_commands.
GenPropagate(why) ==
  /\ gpc' = "g_raised"
  /\ outcome' = why
  /\ UNCHANGED commands

\* Lines 434-437: an exception raised in the try is logged and [] returned.
GenCaught(why) == GenReturnEmpty(why)

\* Line 324: the title, or "Unknown Window" for a falsy result.
GenWindow ==
  /\ gpc = "g_window"
  /\ \E w \in WindowTitles :
       current_window' = IF w = "None" THEN "Unknown Window" ELSE w
  /\ gpc' = "g_prompt"
  /\ UNCHANGED <<handlerVars, mouseVars, user_text, conversation_history, context,
                 attempts, fetches, status, output, raw_text, clean_text,
                 commands, outcome>>

\* get_active_window raises: the except of line 434.
GenWindowRaise ==
  /\ gpc = "g_window"
  /\ GenCaught("window_error")
  /\ UNCHANGED <<handlerVars, mouseVars, user_text, conversation_history, current_window,
                 context, attempts, fetches, status, output, raw_text,
                 clean_text>>

\* Lines 327-340: the prompt embeds the last turns of the history.
GenPrompt ==
  /\ gpc = "g_prompt"
  /\ context' = LastTurns(conversation_history)
  /\ gpc' = "g_create"
  /\ UNCHANGED <<handlerVars, mouseVars, user_text, conversation_history, current_window,
                 attempts, fetches, status, output, raw_text, clean_text,
                 commands, outcome>>

\* Lines 342-349.
GenCreate ==
  /\ gpc = "g_create"
  /\ attempts' = 0
  /\ gpc' = "g_poll"
  /\ UNCHANGED <<handlerVars, mouseVars, user_text, conversation_history, current_window,
                 context, fetches, status, output, raw_text, clean_text,
                 commands, outcome>>

\* executions.create raises: the except of line 434.
GenCreateRaise ==
  /\ gpc = "g_create"
  /\ GenCaught("create_error")
  /\ UNCHANGED <<handlerVars, mouseVars, user_text, conversation_history, current_window,
                 context, attempts, fetches, status, output, raw_text,
                 clean_text>>

\* PollBudgetLeft with the bound included.
PollBudgetLeftInclusive == attempts <= MaxAttempts

\* The condition of the while of line 350.
PollBudgetLeft == attempts < MaxAttempts

\* Lines 350-355: one status fetch; a terminal status ends the loop, any
\* other is followed by the sleep and attempts += 1.
GenFetch ==
  /\ gpc = "g_poll"
  /\ PollBudgetLeft
  /\ fetches' = fetches + 1
  /\ \E st \in Statuses :
       /\ status' = st
       /\ output' \in IF st = "succeeded" THEN Payloads ELSE {NonePayload}
       /\ IF IsTerminal(st)
          THEN gpc' = "g_status" /\ attempts' = attempts
          ELSE gpc' = "g_poll" /\ attempts' = attempts + 1
  /\ UNCHANGED <<handlerVars, mouseVars, user_text, conversation_history, current_window,
                 context, raw_text, clean_text, commands, outcome>>

\* executions.get raises: the except of line 434.
GenFetchRaise ==
  /\ gpc = "g_poll"
  /\ PollBudgetLeft
  /\ fetches' = fetches + 1
  /\ GenCaught("poll_error")
  /\ UNCHANGED <<handlerVars, mouseVars, user_text, conversation_history, current_window,
                 context, attempts, status, output, raw_text, clean_text>>

\* The while of line 350 ends with the budget used up.
GenPollEnd ==
  /\ gpc = "g_poll"
  /\ ~PollBudgetLeft
  /\ gpc' = "g_status"
  /\ UNCHANGED <<handlerVars, mouseVars, user_text, conversation_history, current_window,
                 context, attempts, fetches, status, output, raw_text,
                 clean_text, commands, outcome>>

\* Lines 357 and 428-432.
GenStatus ==
  /\ gpc = "g_status"
  /\ IF status = "succeeded"
     THEN gpc' = "g_extract" /\ UNCHANGED <<commands, outcome>>
     ELSE GenReturnEmpty(IF status = "failed" THEN "failed" ELSE "budget")
  /\ UNCHANGED <<handlerVars, mouseVars, user_text, conversation_history, current_window,
                 context, attempts, fetches, status, output, raw_text,
                 clean_text>>

\* Lines 359-381.
GenExtract ==
  /\ gpc = "g_extract"
  /\ raw_text' = ExtractText(output)
  /\ gpc' = "g_fallback"
  /\ UNCHANGED <<handlerVars, mouseVars, user_text, conversation_history, current_window,
                 context, attempts, fetches, status, output, clean_text,
                 commands, outcome>>

\* Lines 383-393: with no text so far, the search in str(result.output);
\* result.output raises AttributeError when result has no such attribute.
GenFallback ==
  /\ gpc = "g_fallback"
  /\ IF raw_text # NoText
     THEN gpc' = "g_clean" /\ UNCHANGED <<raw_text, commands, outcome>>
     ELSE IF output.kind = "missing"
          THEN GenCaught("extract_error") /\ UNCHANGED raw_text
          ELSE IF ArraySearch(OutputStr(output)).found
               THEN /\ raw_text' = ArraySearch(OutputStr(output)).text
                    /\ gpc' = "g_clean"
                    /\ UNCHANGED <<commands, outcome>>
               ELSE GenReturnEmpty("no_text") /\ UNCHANGED raw_text
  /\ UNCHANGED <<handlerVars, mouseVars, user_text, conversation_history, current_window,
                 context, attempts, fetches, status, output, clean_text>>

\* Line 395.
GenClean ==
  /\ gpc = "g_clean"
  /\ clean_text' = CleanText(raw_text)
  /\ gpc' = "g_parse"
  /\ UNCHANGED <<handlerVars, mouseVars, user_text, conversation_history, current_window,
                 context, attempts, fetches, status, output, raw_text,
                 commands, outcome>>

\* GenParse storing only the turns of the prompt's window.
GenParsePruning ==
  /\ gpc = "g_parse"
  /\ IF JsonLoads(clean_text).ok
     THEN /\ commands' = JsonLoads(clean_text).val
          /\ conversation_history' =
               Append(LastTurns(conversation_history),
                      Turn(user_text, raw_text, current_window, Now))
          /\ outcome' = "parsed"
          /\ gpc' = "g_done"
     ELSE /\ gpc' = "g_recover"
          /\ UNCHANGED <<commands, conversation_history, outcome>>
  /\ UNCHANGED <<handlerVars, mouseVars, user_text, current_window, context, attempts,
                 fetches, status, output, raw_text, clean_text>>

\* Lines 397-407: the direct parse; on success the turn is appended and the
\* parsed value returned.
GenParse ==
  /\ gpc = "g_parse"
  /\ IF JsonLoads(clean_text).ok
     THEN /\ commands' = JsonLoads(clean_text).val
          /\ conversation_history' =
               Append(conversation_history,
                      Turn(user_text, raw_text, current_window, Now))
          /\ outcome' = "parsed"
          /\ gpc' = "g_done"
     ELSE /\ gpc' = "g_recover"
          /\ UNCHANGED <<commands, conversation_history, outcome>>
  /\ UNCHANGED <<handlerVars, mouseVars, user_text, current_window, context, attempts,
                 fetches, status, output, raw_text, clean_text>>

\* Lines 408-427: the parse of the text from the first "[" to the last "]".
GenRecover ==
  /\ gpc = "g_recover"
  /\ LET json_str == BracketSlice(clean_text) IN
     IF json_str.found /\ JsonLoads(json_str.text).ok
     THEN /\ commands' = JsonLoads(json_str.text).val
          /\ conversation_history' =
               Append(conversation_history,
                      Turn(user_text, json_str.text, current_window, Now))
          /\ outcome' = "recovered"
          /\ gpc' = "g_done"
     ELSE /\ GenReturnEmpty("parse_error")
          /\ UNCHANGED conversation_history
  /\ UNCHANGED <<handlerVars, mouseVars, user_text, current_window, context, attempts,
                 fetches, status, output, raw_text, clean_text>>

NextGen ==
  \/ GenWindow
  \/ GenWindowRaise
  \/ GenPrompt
  \/ GenCreate
  \/ GenCreateRaise
  \/ GenFetch
  \/ GenFetchRaise
  \/ GenPollEnd
  \/ GenStatus
  \/ GenExtract
  \/ GenFallback
  \/ GenClean
  \/ GenParse
  \/ GenRecover

----------------------------------------------------------------------------
\* move_mouse.
\*
\* A fraction is a pair of a numerator and a denominator; a point is a pair
\* of a pixel column and a pixel row.

\* The values move_x and move_y are given: the fractions of [0, 1] with
\* denominators up to MaxDen.
Fractions == { [num |-> n, den |-> d] : n \in 0..MaxDen, d \in 1..MaxDen }
UnitFractions == { f \in Fractions : f.num <= f.den }

\* What pyautogui.size() returns.
ScreenSizes == 1..MaxScreen

NoPoint == <<-1, -1>>

\* float(f) is f itself: the denominator of the reduced fraction is a power
\* of two.
IsExact(f) == \E e \in 0..MaxDen : (f.num * (2 ^ e)) % f.den = 0

\* int(float(f) * size) of lines 474-475.  int truncates.  The product of a
\* fraction float() rounds is rounded again, and where the true product is
\* a whole number the rounded one is it or falls just short of it.
Scaled(f, size) ==
  LET whole == (f.num * size) \div f.den IN
  IF IsExact(f) \/ (f.num * size) % f.den # 0
  THEN {whole}
  ELSE {whole - 1, whole}

\* move_mouse has not been called.
MouseIdle ==
  /\ mpc = "m_idle"
  /\ move_x = [num |-> 1, den |-> 2]
  /\ move_y = [num |-> 1, den |-> 2]
  /\ screen_width = 0
  /\ screen_height = 0
  /\ x = 0
  /\ y = 0
  /\ target = NoPoint

\* move_mouse(move_x, move_y) is called (lines 469-471).
MouseCalled ==
  /\ mpc = "m_size"
  /\ move_x \in UnitFractions
  /\ move_y \in UnitFractions
  /\ screen_width = 0
  /\ screen_height = 0
  /\ x = 0
  /\ y = 0
  /\ target = NoPoint

\* Line 473.
MouseSize ==
  /\ mpc = "m_size"
  /\ screen_width' \in ScreenSizes
  /\ screen_height' \in ScreenSizes
  /\ mpc' = "m_scale"
  /\ UNCHANGED <<handlerVars, genVars, move_x, move_y, x, y, target>>

\* Lines 474-475.
MouseScale ==
  /\ mpc = "m_scale"
  /\ x' \in Scaled(move_x, screen_width)
  /\ y' \in Scaled(move_y, screen_height)
  /\ mpc' = "m_move"
  /\ UNCHANGED <<handlerVars, genVars, move_x, move_y, screen_width,
                 screen_height, target>>

\* Line 476.
MouseMoveTo ==
  /\ mpc = "m_move"
  /\ target' = <<x, y>>
  /\ mpc' = "m_done"
  /\ UNCHANGED <<handlerVars, genVars, move_x, move_y, screen_width,
                 screen_height, x, y>>

NextMouse ==
  \/ MouseSize
  \/ MouseScale
  \/ MouseMoveTo

----------------------------------------------------------------------------
\* execute_commands is called with a plan without read_from_cursor steps.
Init == InitWith(Plans) /\ GenIdle /\ MouseIdle

\* execute_commands is called with a plan with a read_from_cursor step.
InitRead == InitWith(ReadPlans) /\ GenIdle /\ MouseIdle

\* generate_commands is called.
InitGen == InitWith({<<>>}) /\ GenCalled /\ MouseIdle

\* move_mouse is called.
InitMouse == InitWith({<<>>}) /\ GenIdle /\ MouseCalled

Next ==
  \/ ExecEntry
  \/ ExecLoopEnd
  \/ ExecMalformed
  \/ ExecUnknown
  \/ ExecInvoke
  \/ GenericReturn
  \/ GenericRaise
  \/ SpeakEntry
  \/ SpeakLock
  \/ SpeakTest
  \/ SpeakStart
  \/ SpeakExit
  \/ StopLock
  \/ StopEngine
  \/ StopEngineRaise
  \/ StopReinit
  \/ StopFlag
  \/ StopJoin
  \/ StopExit
  \/ \E t \in DOMAIN thr : RunSpeechFlag(t)
  \/ \E t \in DOMAIN thr : RunSpeechSay(t)
  \/ \E t \in DOMAIN thr : RunSpeechEnd(t)
  \/ \E t \in DOMAIN thr : RunSpeechFinally(t)

\* The executor and the speech subsystem, on plans without read_from_cursor.
Spec == Init /\ [][Next]_vars

NextRead ==
  \/ Next
  \/ ReadSave
  \/ ReadSelect
  \/ ReadCopy
  \/ ReadPaste
  \/ ReadExtend
  \/ ReadCopyAgain
  \/ ReadPasteAgain
  \/ ReadClean
  \/ ReadRestore
  \/ ReadSpeak
  \/ ReadRaise
  \/ ReadExit

\* The same, on plans with a read_from_cursor step.
SpecRead == InitRead /\ [][NextRead]_vars

\* One call of generate_commands.
SpecGen == InitGen /\ [][NextGen]_vars

\* One call of move_mouse.
SpecMouse == InitMouse /\ [][NextMouse]_vars

----------------------------------------------------------------------------
\* Helpers of the properties.

Range(s) == { s[n] : n \in DOMAIN s }

IsPrefix(s, t) == Len(s) <= Len(t) /\ s = SubSeq(t, 1, Len(s))

AllSteps(p) == [n \in 1..Len(p) |-> n]

\* The step's command is a key of the registry.
HasRegisteredCommand(s) == s.shape = "dict" /\ s.command \in Actions

\* The step's command is a key of the registry and the step can be called:
\* its parameters, when present, are a mapping.
IsCallable(s) == HasRegisteredCommand(s) /\ s.parameters # "notmapping"

\* The indices, in order, of the steps of p whose command is a key of the
\* registry, and of those that can be called.
RegisteredSteps(p) ==
  SelectSeq(AllSteps(p), LAMBDA n : HasRegisteredCommand(p[n]))

CallableSteps(p) == SelectSeq(AllSteps(p), LAMBDA n : IsCallable(p[n]))

\* The threads inside say / runAndWait.
Speaking == { t \in DOMAIN thr : thr[t] = "saying" }

----------------------------------------------------------------------------
\* C1 as stated: when execute_commands has returned, the handler
\* invocations are exactly the steps whose command is a key of the registry,
\* in plan order, each once.
C1_InvokedAreRegistered ==
  pc = "done" => invoked = RegisteredSteps(plan)

\* C1 amended: the handler invocations are, in plan order and each once,
\* exactly the steps whose command is a key of the registry and whose
\* parameters, when present, are a mapping; while the plan runs they are a
\* prefix of that sequence; and every step of the plan is dispatched,
\* whatever unknown commands come before it.
C1_InvokedAreCallable ==
  /\ IsPrefix(invoked, CallableSteps(plan))
  /\ pc = "done" =>
       /\ invoked = CallableSteps(plan)
       /\ dispatched = AllSteps(plan)

\* C1 witness: a plan has run to its end in which an unknown command stands
\* between two steps that were invoked.
C1_Witness ==
  /\ pc = "done"
  /\ \E n \in 2..(Len(plan) - 1) :
       /\ ~GetRaises(plan[n]) /\ ~IsRegistered(plan[n])
       /\ n - 1 \in Range(invoked)
       /\ n + 1 \in Range(invoked)

\* C2: no exception leaves execute_commands, and once it has returned every
\* step after a step that raised (in its handler or in its dispatch) has
\* been dispatched.
C2_FaultIsolation ==
  /\ pc # "raised"
  /\ pc = "done" =>
       \A n \in raisedAt : \A m \in (n + 1)..Len(plan) : m \in Range(dispatched)

\* C2 witness: a plan has run to its end in which a handler raised, the
\* dispatch of a later malformed step raised, and a step after both was
\* invoked.
C2_Witness ==
  /\ pc = "done"
  /\ \E n, m, l \in DOMAIN plan :
       /\ n < m /\ m < l
       /\ n \in raisedAt /\ n \in Range(invoked)
       /\ m \in raisedAt /\ m \notin Range(invoked)
       /\ l \in Range(invoked)

\* C3: at most one background speech task is inside say / runAndWait.
C3_AtMostOneUtterance == Cardinality(Speaking) <= 1

\* C4: when stop_speaking returns, is_speaking is false and no background
\* speech task is producing an utterance.
C4_StopReturnsIdle ==
  pc = "ss_exit" => ~is_speaking /\ Speaking = {}

\* C5: no call of speak_text or stop_speaking waits for the speech lock
\* while the waiting flow itself holds it (a wait that never ends, the lock
\* being released by its holder alone).
C5_NeverWaitsForOwnLock ==
  ~(pc \in {"st_lock", "ss_lock"} /\ speech_lock = "main")

\* C9: every write to is_speaking, engine and speech_thread is made by a
\* flow that holds the speech lock.
C9_WritesHoldLock == lastWrite.locked

\* C8: when read_from_cursor returns, the clipboard holds what it held when
\* read_from_cursor was called.
C8_ClipboardRestored == pc = "rc_exit" => clipboard = entry_clipboard

\* The positions of the main flow outside every handler.
LoopPositions == {"exec_entry", "loop", "done", "raised"}

\* C10: at most one step handler is active, and it is the handler of the
\* step the loop is at; outside the handlers none is active; and every
\* background thread was started by a speak_text or read_from_cursor step
\* the loop has reached.
C10_OneHandlerAtATime ==
  /\ Cardinality(active) <= 1
  /\ active = IF pc \in LoopPositions THEN {} ELSE {i}
  /\ \A t \in DOMAIN thr :
       thr[t] # "none" =>
         /\ t <= i
         /\ t \in Range(invoked)
         /\ plan[t].command \in {"speak_text", "read_from_cursor"}

\* C10 witness: the handler of a later step is active while the thread
\* started by an earlier read_from_cursor step is inside say / runAndWait.
C10_Witness ==
  /\ active = {i}
  /\ \E t \in Speaking : t < i /\ plan[t].command = "read_from_cursor"

\* The ways generate_commands fails.
FailureModes ==
  {"window_error", "create_error", "poll_error", "budget", "failed",
   "extract_error", "no_text", "parse_error"}

C7_ThirtyFetches ==
  /\ fetches <= 30
  /\ (gpc = "g_done" /\ outcome = "budget") =>
       (fetches = 30 /\ commands = EmptyPlan)

\* C7 witness: generate_commands has returned with the polls used up.
C7_Witness == gpc = "g_done" /\ outcome = "budget" /\ ~IsTerminal(status)

----------------------------------------------------------------------------
\* The paths on which generate_commands parsed the model's text.
SuccessModes == {"parsed", "recovered"}

\* C11: the conversation history is append-only.  The step on which
\* generate_commands returns a parsed plan appends exactly one turn at the
\* end of the history and keeps every earlier turn as it was; every other
\* step, the returns on a failure path included, leaves the history as it
\* is.
C11_HistoryAppendOnly ==
  [][IF gpc # "g_done" /\ gpc' = "g_done" /\ outcome' \in SuccessModes
     THEN /\ Len(conversation_history') = Len(conversation_history) + 1
          /\ SubSeq(conversation_history', 1, Len(conversation_history))
               = conversation_history
     ELSE conversation_history' = conversation_history]_vars

\* C11 witness: a call on a history longer than the prompt's window has
\* returned a parsed plan and the history is one turn longer.
C11_Witness ==
  /\ gpc = "g_done"
  /\ outcome = "parsed"
  /\ commands = JsonLoads(PlanText).val
  /\ Len(conversation_history) > ContextTurns + 1
  /\ conversation_history[Len(conversation_history)].user = user_text

\* C12: what generate_commands returns is a sequence: a plan, or the empty
\* plan; never a parsed JSON value of another type.
C12_ReturnsSequence == gpc = "g_done" => commands.t = "arr"

\* C13: building the prompt embeds exactly the most recent min(3, n) of the
\* n stored turns, in their order, and leaves the stored history as it is.
C13_ContextIsLastThree ==
  [][gpc = "g_prompt" =>
       LET n == Len(conversation_history)
           m == IF n < 3 THEN n ELSE 3 IN
       /\ conversation_history' = conversation_history
       /\ Len(context') = m
       /\ \A j \in 1..m : context'[j] = conversation_history[n - m + j]]_vars

\* C13 witness: the prompt was built from a history of more than three
\* turns, and holds three of them.
C13_Witness ==
  /\ gpc = "g_create"
  /\ Len(conversation_history) > 3
  /\ Len(context) = 3
  /\ context[1] # conversation_history[1]

\* The texts the four strategies of the extraction yield for a payload, ""
\* for nothing: the assistant entry of a message list, choices[0] of a
\* dictionary, the top-level content of a dictionary, and the array found in
\* the stringified payload.
AssistantEntryText(o) ==
  IF o.kind = "list" THEN AssistantContent(o.items) ELSE NoText

ChoiceText(o) ==
  IF o.kind = "dict" /\ o.hasChoices /\ Len(o.choices) > 0
  THEN IF o.choices[1].hasMessage /\ o.choices[1].messageHasContent
       THEN o.choices[1].messageContent
       ELSE IF o.choices[1].hasContent THEN o.choices[1].content ELSE NoText
  ELSE NoText

TopLevelText(o) ==
  IF o.kind = "dict" /\ o.hasContent THEN o.content ELSE NoText

StringifiedText(o) ==
  IF o.kind # "missing" /\ ArraySearch(OutputStr(o)).found
  THEN ArraySearch(OutputStr(o)).text
  ELSE NoText

\* The first text of ts that is not empty, "" when there is none.
RECURSIVE FirstNonEmpty(_)
FirstNonEmpty(ts) ==
  IF ts = <<>> THEN NoText
  ELSE IF Head(ts) # NoText THEN Head(ts)
  ELSE FirstNonEmpty(Tail(ts))

CascadeText(o) ==
  FirstNonEmpty(<<AssistantEntryText(o), ChoiceText(o), TopLevelText(o),
                  StringifiedText(o)>>)

\* C14: the text extracted from a succeeded payload is the one of the first
\* of the four strategies, in their order, that yields a non-empty text;
\* the extraction gives up only when none of them yields one.
C14_CascadeInOrder ==
  /\ gpc = "g_clean" => raw_text = CascadeText(output)
  /\ (gpc = "g_done" /\ outcome = "no_text") => CascadeText(output) = NoText

\* The code-fence markers.
Fences == {"~~~json", "~~~"}

\* s is prose: a text that is no JSON, not blank and without fence markers.
IsProse(s) ==
  /\ Strip(s) # NoText
  /\ ~JsonLoads(s).ok
  /\ \A n \in DOMAIN s : s[n] \notin Fences

\* s is a JSON array of plan steps, written from its "[" to its "]".
IsPlanArray(s) ==
  /\ s # NoText
  /\ s[1] = "[" /\ s[Len(s)] = "]"
  /\ JsonLoads(s).ok
  /\ JsonLoads(s).val.t = "arr"
  /\ \A n \in DOMAIN JsonLoads(s).val.items : JsonLoads(s).val.items[n] = Obj

\* The ways to read s as a plan array with prose before it, after it or
\* both: the positions <<p, q>> of the array's "[" and "]".
ProseAround(s) ==
  { m \in (DOMAIN s) \X (DOMAIN s) :
      LET before == SubSeq(s, 1, m[1] - 1)
          after == SubSeq(s, m[2] + 1, Len(s)) IN
      /\ m[1] < m[2]
      /\ IsPlanArray(SubSeq(s, m[1], m[2]))
      /\ IsProse(before) \/ Strip(before) = NoText
      /\ IsProse(after) \/ Strip(after) = NoText
      /\ IsProse(before) \/ IsProse(after) }

\* generate_commands has returned after parsing, or failing to parse, the
\* text the payload carries as the model's answer.
AnswerHandled ==
  /\ gpc = "g_done"
  /\ outcome \in SuccessModes \cup {"parse_error"}
  /\ raw_text \in {AssistantEntryText(output), ChoiceText(output),
                   TopLevelText(output)}

\* C15 as stated: when the model's answer is a plan array with prose before
\* and/or after it, generate_commands returns the plan that array denotes.
C15_ProseRecovered ==
  AnswerHandled =>
    \A m \in ProseAround(raw_text) :
      commands = JsonLoads(SubSeq(raw_text, m[1], m[2])).val

\* C15 amended: the same when the prose before the array has no "[" and the
\* prose after it no "]"; the plan is then recovered by the parse of the
\* text from the first "[" to the last "]".
C15_BracketFreeProseRecovered ==
  AnswerHandled =>
    \A m \in ProseAround(raw_text) :
      (/\ \A n \in 1..(m[1] - 1) : raw_text[n] # "["
       /\ \A n \in (m[2] + 1)..Len(raw_text) : raw_text[n] # "]")
      => /\ outcome = "recovered"
         /\ BracketSlice(clean_text).text = SubSeq(raw_text, m[1], m[2])
         /\ commands = JsonLoads(SubSeq(raw_text, m[1], m[2])).val

\* C15 witness: the text "Sure [{}] ok" was recovered to the plan [{}].
C15_Witness ==
  /\ gpc = "g_done"
  /\ raw_text = ProsePlanText
  /\ ProseAround(raw_text) = {<<3, 5>>}
  /\ commands = Arr(<<Obj>>)

\* The wrappings of a text in code fences.
Fenced(s) ==
  { <<"~~~json", "\n">> \o s \o <<"\n", "~~~">>,
    <<"~~~", "\n">> \o s \o <<"\n", "~~~">> }

\* The texts of the model that are a plan array.
PlanArrays == { s \in ModelTexts : IsPlanArray(s) }

\* C16: a plan array wrapped in code fences gives the plan the array gives
\* unwrapped, the plan the array denotes.
C16_FencesIgnored ==
  AnswerHandled =>
    \A a \in PlanArrays :
      raw_text \in {a} \cup Fenced(a) => commands = JsonLoads(a).val

\* C16 witness: the two-step plan wrapped in bare fences was returned as
\* the two-step plan.
C16_Witness ==
  /\ gpc = "g_done"
  /\ raw_text = BareFencedPlanText
  /\ raw_text \in Fenced(PlanText)
  /\ commands = Arr(<<Obj, Obj>>)

\* C18: after a status fetch has returned succeeded or failed no further
\* fetch is made; a non-empty plan is returned only when the last fetched
\* status is succeeded; a failed status gives the empty plan.
C18_TerminalStatusEndsPolling ==
  [][/\ status \in {"succeeded", "failed"} => fetches' = fetches
     /\ (gpc' = "g_done" /\ commands' # EmptyPlan) => status' = "succeeded"
     /\ (gpc' = "g_done" /\ status' = "failed") => commands' = EmptyPlan]_vars

\* C18 witness: the third fetch returned failed, and generate_commands has
\* returned the empty plan without another fetch.
C18_Witness ==
  /\ gpc = "g_done"
  /\ status = "failed"
  /\ outcome = "failed"
  /\ fetches = 3
  /\ attempts = 2
  /\ commands = EmptyPlan

\* The stop_speaking steps of the plan whose call has returned.
StopsReturned ==
  { j \in Range(invoked) :
      /\ plan[j].command = "stop_speaking"
      /\ j \notin active
      /\ j \notin raisedAt }

\* C19: once a stop_speaking call has returned, no utterance requested by a
\* speak_text call that had completed before it is being spoken, whether
\* its thread had begun to run when stop_speaking executed or not.
C19_CancellationEffective ==
  \A j \in StopsReturned : \A t \in Speaking : t > j

\* C20: is_speaking is true whenever a background speech thread is
\* producing an utterance.
C20_FlagCoversSpeech == Speaking # {} => is_speaking

\* The pixels of the screen move_mouse found.
OnScreen == (0..(screen_width - 1)) \X (0..(screen_height - 1))

IsZero(f) == f.num = 0
IsOne(f) == f.num = f.den

\* C17: move_mouse(0, 0) targets pixel (0, 0), move_mouse(1, 1) targets the
\* bottom-right-most pixel (W - 1, H - 1), and for fractions in [0, 1] the
\* target is a pixel of the screen.
C17_TargetOnScreen ==
  mpc = "m_done" =>
    /\ (IsZero(move_x) /\ IsZero(move_y)) => target = <<0, 0>>
    /\ (IsOne(move_x) /\ IsOne(move_y)) =>
         target = <<screen_width - 1, screen_height - 1>>
    /\ target \in OnScreen

\* The captures of c that are not empty and differ from the capture before
\* them; the first capture has none before it.
Fresh(c) ==
  { n \in DOMAIN c : c[n] # NoText /\ (n = 1 \/ c[n] # c[n - 1]) }

\* The last of them.
LastFresh(c) == c[CHOOSE n \in Fresh(c) : \A m \in Fresh(c) : m <= n]

\* The main flow is in a call read_from_cursor made.
InReadCall ==
  /\ pc \in {"st_entry", "st_lock", "st_test", "st_start", "st_exit",
             "ss_lock", "ss_engine", "ss_reinit", "ss_flag", "ss_join",
             "ss_exit"}
  /\ active = {i}
  /\ plan[i].command = "read_from_cursor"

\* C21: read_from_cursor extends the selection at most 10 times after a
\* non-empty first capture, and not at all after an empty one; a capture of
\* an extension that is empty or equal to the capture before it is the last
\* capture; speak_text is called only after a non-empty first capture, and
\* the text it is handed is the last capture that is not empty and differs
\* from the one before it, with line breaks replaced by spaces.
C21_ExtendAndSpeakLastCapture ==
  /\ Len(captures) <= 1 + 10
  /\ (captures # <<>> /\ captures[1] = NoText) => Len(captures) = 1
  /\ \A n \in 2..(Len(captures) - 1) : n \in Fresh(captures)
  /\ InReadCall =>
       /\ captures # <<>> /\ captures[1] # NoText
       /\ pc = "st_entry" => arg = CleanNewlines(LastFresh(captures))

\* C21 witness: after ten extensions, each with a new capture, speak_text is
\* called with the eleventh capture, its line break replaced by a space.
C21_Witness ==
  /\ InReadCall
  /\ pc = "st_entry"
  /\ Len(captures) = 11
  /\ captures[11] = <<"a", "\n", "b">>
  /\ arg = <<"a", " ", "b">>

\* A second C21 case: the loop ended at an unchanged capture.
C21_WitnessBreak ==
  /\ InReadCall
  /\ pc = "st_entry"
  /\ Len(captures) = 3
  /\ captures[3] = captures[2]
  /\ arg = CleanNewlines(captures[2])

\* C22: when generate_commands has returned a parsed plan, by the direct
\* parse or by the recovery pass, the last turn of the history holds the
\* user text, the model's text as extracted from the payload (before the
\* fences are removed and before the brackets are sliced), the window title
\* of this call, and a time later than that of every earlier turn.
C22_TurnRecordsRawText ==
  (gpc = "g_done" /\ outcome \in SuccessModes) =>
    LET n == Len(conversation_history)
        turn == conversation_history[n] IN
    /\ turn.user = user_text
    /\ turn.assistant = raw_text
    /\ turn.window = current_window
    /\ \A m \in 1..(n - 1) : conversation_history[m].timestamp < turn.timestamp

====
